---- MODULE Spec2Model ----
(***************************************************************************)
(* Two-pass connected-component labelling, ConnectedComponent.cpp.         *)
(*                                                                         *)
(* One ConnectedComponent object is modelled together with a twin object   *)
(* that is re-created (fresh from the constructor) at the start of every   *)
(* call and runs the same code on the same image.  A call of apply is      *)
(* followed pixel by pixel: one step per pixel visit of pass 1, one per    *)
(* pixel visit of pass 2, one for the property extraction and the return.  *)
(*                                                                         *)
(* Not modelled: the floating point members centroid and eccentricity of   *)
(* a property record (cv::moments is an external collaborator).            *)
(***************************************************************************)
EXTENDS Integers, Sequences, FiniteSets

\* ------------------------------------------------------------------ bounds
\* images given to a fresh object
MaxRows == 2
MaxCols == 4
\* images given to an object that is used again and again
ReuseRows == 1
ReuseCols == 3
\* the constructor's argument, and what nextLabel may hold before apply
MaxMaxComponent == 4
MaxGarbage == 1

\* ------------------------------------------------------- program constants
Foreground == 255
NULL == -1

\* ------------------------------------------------------------ cv::Mat
EmptyArr == [i \in {} |-> 0]

NoMat == [rows |-> 0, cols |-> 0, data |-> EmptyArr]

\* a CV_8UC1 image of the given size and pixels
Mat(r, c, d) == [rows |-> r, cols |-> c, data |-> d]

\* the pixel arrays of the binary images of r x c pixels
Pixels(r, c) == [0 .. (r * c - 1) -> {0, Foreground}]

\* element (x, y) of a row-major single-channel matrix
at(m, x, y) == m.data[y * m.cols + x]

\* curr_ptr[x] = v with curr_ptr = m.ptr<int>(y)
put(m, x, y, v) == [m EXCEPT !.data[y * m.cols + x] = v]

\* image.clone() followed by convertTo(CV_32SC1): same values, wider type
convertTo(m) == [rows |-> m.rows, cols |-> m.cols,
                 data |-> [i \in DOMAIN m.data |-> m.data[i]]]

\* vector<int> v(n): n zero-initialised entries, indexed 0 .. n-1
zeros(n) == [i \in 0 .. (n - 1) |-> 0]

\* ------------------------------------------------- std::sort + unique_copy
SetMin(S) == CHOOSE v \in S : \A w \in S : v <= w

SetMax(S) == CHOOSE v \in S : \A w \in S : w <= v

RECURSIVE SortedSeq(_)
SortedSeq(S) ==
  IF S = {} THEN << >>
  ELSE LET v == SetMin(S) IN << v >> \o SortedSeq(S \ {v})

Range(s) == { s[i] : i \in DOMAIN s }

SortUnique(s) == SortedSeq(Range(s))

\* min_element(begin, end) - begin, as a 1-based position
min_index(s) ==
  CHOOSE i \in DOMAIN s :
    /\ \A j \in DOMAIN s : s[i] <= s[j]
    /\ \A j \in DOMAIN s : (s[j] = s[i]) => (i <= j)

\* ----------------------------------------------------------- getNeighbors
PushIf(s, c, v) == IF c THEN Append(s, v) ELSE s

\* a neighbourhood without pixel 4 (prev_ptr[x+1])
getNeighbors_noUpRight(m, prev_ptr, x, y) ==
  LET n0 == << >>
      n1 == IF prev_ptr # NULL
            THEN PushIf(n0, at(m, x, prev_ptr) # 0, at(m, x, prev_ptr))
            ELSE n0
      n2 == IF prev_ptr # NULL /\ x > 0
            THEN PushIf(n1, at(m, x - 1, prev_ptr) # 0, at(m, x - 1, prev_ptr))
            ELSE n1
      n4 == IF x > 0
            THEN PushIf(n2, at(m, x - 1, y) # 0, at(m, x - 1, y))
            ELSE n2
  IN  SortUnique(n4)

\* pixels 3, 2, 4 of the previous row and pixel 1 of the current row
getNeighbors(m, prev_ptr, x, y) ==
  LET cols == m.cols
      n0 == << >>
      n1 == IF prev_ptr # NULL
            THEN PushIf(n0, at(m, x, prev_ptr) # 0, at(m, x, prev_ptr))
            ELSE n0
      n2 == IF prev_ptr # NULL /\ x > 0
            THEN PushIf(n1, at(m, x - 1, prev_ptr) # 0, at(m, x - 1, prev_ptr))
            ELSE n1
      n3 == IF prev_ptr # NULL /\ x < cols - 1
            THEN PushIf(n2, at(m, x + 1, prev_ptr) # 0, at(m, x + 1, prev_ptr))
            ELSE n2
      n4 == IF x > 0
            THEN PushIf(n3, at(m, x - 1, y) # 0, at(m, x - 1, y))
            ELSE n3
  IN  SortUnique(n4)

\* --------------------------------------------------------- disjoint sets
\* The root-chasing loop  while( parent[a] > 0 ) a = parent[a];
\* An index outside the vector is undefined behaviour: the chase stops and
\* reports it ("oob").  A chase that follows more pointers than the vector
\* has entries is in a cycle and never ends ("loop").
RECURSIVE chase(_, _, _)
chase(parent, a, fuel) ==
  IF a \notin DOMAIN parent
  THEN [root |-> a, visited |-> {a}, end |-> "oob"]
  ELSE IF parent[a] > 0
       THEN IF fuel = 0
            THEN [root |-> a, visited |-> {a}, end |-> "loop"]
            ELSE LET r == chase(parent, parent[a], fuel - 1)
                 IN  [r EXCEPT !.visited = @ \cup {a}]
       ELSE [root |-> a, visited |-> {a}, end |-> "root"]

find_root(parent, a) == chase(parent, a, Cardinality(DOMAIN parent))

\* linking the other way round: the larger root is redirected to the smaller
link_toSmaller(a, b, parent) ==
  IF a # b
  THEN IF a < b THEN [parent EXCEPT ![b] = a] ELSE [parent EXCEPT ![a] = b]
  ELSE parent

\* linking without the test a != b
link_unchecked(a, b, parent) ==
  IF a < b THEN [parent EXCEPT ![a] = b] ELSE [parent EXCEPT ![b] = a]

\* if( a != b ) { if( a < b ) parent[a] = b; else parent[b] = a; }
link(a, b, parent) ==
  IF a # b
  THEN IF a < b THEN [parent EXCEPT ![a] = b] ELSE [parent EXCEPT ![b] = a]
  ELSE parent

disjointUnion(a, b, parent) ==
  LET ra == find_root(parent, a)
      rb == find_root(parent, b)
  IN  IF ra.end # "root"
      THEN [parent |-> parent, visited |-> ra.visited, end |-> ra.end]
      ELSE IF rb.end # "root"
           THEN [parent |-> parent, visited |-> ra.visited \cup rb.visited,
                 end |-> rb.end]
           ELSE [parent |-> link(ra.root, rb.root, parent),
                 visited |-> ra.visited \cup rb.visited, end |-> "root"]

\* handing out a new id on every find
assign_always(a, labels, nextLabel) ==
  [value |-> nextLabel, labels |-> [labels EXCEPT ![a] = nextLabel],
   nextLabel |-> nextLabel + 1]

\* if( labels[a] == 0 ) labels[a] = nextLabel++;  return labels[a];
assign(a, labels, nextLabel) ==
  IF labels[a] = 0
  THEN [value |-> nextLabel, labels |-> [labels EXCEPT ![a] = nextLabel],
        nextLabel |-> nextLabel + 1]
  ELSE [value |-> labels[a], labels |-> labels, nextLabel |-> nextLabel]

disjointFind(a, parent, labels, nextLabel) ==
  LET r == find_root(parent, a)
  IN  IF r.end # "root"
      THEN [value |-> 0, labels |-> labels, nextLabel |-> nextLabel,
            visited |-> r.visited, end |-> r.end]
      ELSE IF r.root \notin DOMAIN labels
           THEN [value |-> 0, labels |-> labels, nextLabel |-> nextLabel,
                 visited |-> r.visited, end |-> "oob"]
           ELSE LET f == assign(r.root, labels, nextLabel)
                IN  [value |-> f.value, labels |-> f.labels,
                     nextLabel |-> f.nextLabel,
                     visited |-> r.visited, end |-> "root"]

\* ------------------------------------------------ the labelling object
\* An object is a record: the members maxComponent, nextLabel and properties,
\* the locals of a running apply (image, result, linked, labels_set, temp,
\* x, y, prev_ptr), the position pc of the call, and its outcome (status,
\* returned).  touched collects every index used on linked and labels_set.
ConnectedComponent(max_component, garbage) ==
  [maxComponent |-> max_component, nextLabel |-> garbage,
   properties |-> << >>, pc |-> "idle", image |-> NoMat, result |-> NoMat,
   linked |-> EmptyArr, labels_set |-> EmptyArr, temp |-> << >>,
   x |-> 0, y |-> 0, prev_ptr |-> NULL, touched |-> {},
   status |-> "none", returned |-> NoMat]

\* a set-up that also empties the property records
apply_begin_clearing(o, img) ==
  [o EXCEPT !.image = img, !.result = convertTo(img), !.nextLabel = 1,
            !.linked = zeros(o.maxComponent), !.labels_set = EmptyArr,
            !.temp = << >>, !.x = 0, !.y = 0, !.prev_ptr = NULL,
            !.touched = {}, !.status = "running", !.returned = NoMat,
            !.properties = << >>, !.pc = "pass1"]

\* lines 28-37: the working copy, the pass-1 counter and the parent array
apply_begin(o, img) ==
  [o EXCEPT !.image = img, !.result = convertTo(img), !.nextLabel = 1,
            !.linked = zeros(o.maxComponent), !.labels_set = EmptyArr,
            !.temp = << >>, !.x = 0, !.y = 0, !.prev_ptr = NULL,
            !.touched = {}, !.status = "running", !.returned = NoMat,
            !.pc = "pass1"]

\* the locals of apply go out of scope
drop_locals(o) ==
  [o EXCEPT !.result = NoMat, !.linked = EmptyArr, !.labels_set = EmptyArr,
            !.temp = << >>, !.x = 0, !.y = 0, !.prev_ptr = NULL]

\* throw std::runtime_error: nothing is returned
throw(o) ==
  [drop_locals(o) EXCEPT !.pc = "idle", !.status = "error",
                         !.returned = NoMat]

\* a root chase that never ends, or one that left the vector
stuck(o, end, visited) ==
  [o EXCEPT !.pc = IF end = "loop" THEN "hang" ELSE "undefined",
            !.touched = @ \cup visited]

\* a start of pass 2 that keeps counting where pass 1 stopped
begin_pass2_keeping(o) ==
  [o EXCEPT !.temp = << >>, !.labels_set = zeros(o.maxComponent),
            !.x = 0, !.y = 0, !.pc = "pass2"]

\* lines 70-72: the counter is reset for the compact ids of pass 2
begin_pass2(o) ==
  [o EXCEPT !.nextLabel = 1, !.temp = << >>,
            !.labels_set = zeros(o.maxComponent),
            !.x = 0, !.y = 0, !.pc = "pass2"]

\* x++ / y++ with prev_ptr = curr_ptr of the first pass
next_pixel1(o) ==
  IF o.x + 1 < o.result.cols
  THEN [o EXCEPT !.x = o.x + 1]
  ELSE IF o.y + 1 < o.result.rows
       THEN [o EXCEPT !.x = 0, !.y = o.y + 1, !.prev_ptr = o.y]
       ELSE begin_pass2([o EXCEPT !.prev_ptr = o.y])

\* x++ / y++ of the second pass
next_pixel2(o) ==
  IF o.x + 1 < o.result.cols
  THEN [o EXCEPT !.x = o.x + 1]
  ELSE IF o.y + 1 < o.result.rows
       THEN [o EXCEPT !.x = 0, !.y = o.y + 1]
       ELSE [o EXCEPT !.pc = "extract"]

\* a test that lets label maxComponent through
capacity_late(next_label, max_component) == next_label > max_component + 1

\* if( nextLabel >= maxComponent ) throw
capacity_exceeded(next_label, max_component) == next_label >= max_component

\* lines 47-55: a fresh provisional label
fresh_label(o) ==
  LET o1 == [o EXCEPT !.result = put(o.result, o.x, o.y, o.nextLabel),
                      !.nextLabel = o.nextLabel + 1]
  IN  IF capacity_exceeded(o1.nextLabel, o1.maxComponent)
      THEN throw(o1)
      ELSE next_pixel1(o1)

\* for( int neighbor: neighbors ) disjointUnion( curr_ptr[x], neighbor, linked )
RECURSIVE union_all(_, _, _, _)
union_all(label, neighbors, i, acc) ==
  IF i > Len(neighbors) \/ acc.end # "root"
  THEN acc
  ELSE LET u == disjointUnion(label, neighbors[i], acc.parent)
       IN  union_all(label, neighbors, i + 1,
                     [parent |-> u.parent,
                      visited |-> acc.visited \cup u.visited,
                      end |-> u.end])

\* lines 58-63: the minimum neighbour label, then the unions
merge(o, neighbors) ==
  LET label == neighbors[min_index(neighbors)]
      o1 == [o EXCEPT !.result = put(o.result, o.x, o.y, label)]
      u == union_all(label, neighbors, 1,
                     [parent |-> o.linked, visited |-> {}, end |-> "root"])
  IN  IF u.end # "root"
      THEN stuck(o1, u.end, u.visited)
      ELSE next_pixel1([o1 EXCEPT !.linked = u.parent,
                                  !.touched = @ \cup u.visited])

\* lines 43-65: one pixel of the first pass
pass1_pixel(o) ==
  IF at(o.result, o.x, o.y) = 0
  THEN next_pixel1(o)
  ELSE LET neighbors == getNeighbors(o.result, o.prev_ptr, o.x, o.y)
       IN  IF neighbors = << >> THEN fresh_label(o) ELSE merge(o, neighbors)

\* lines 77-80: one pixel of the second pass
pass2_pixel(o) ==
  IF at(o.result, o.x, o.y) = 0
  THEN next_pixel2(o)
  ELSE LET f == disjointFind(at(o.result, o.x, o.y), o.linked,
                             o.labels_set, o.nextLabel)
       IN  IF f.end # "root"
           THEN stuck(o, f.end, f.visited)
           ELSE next_pixel2(
                  [o EXCEPT !.result = put(o.result, o.x, o.y, f.value),
                            !.labels_set = f.labels,
                            !.nextLabel = f.nextLabel,
                            !.temp = Append(o.temp, f.value),
                            !.touched = @ \cup f.visited])

\* countNonZero( result >= label )
blob_area_from(m, label) ==
  Cardinality({ i \in DOMAIN m.data : m.data[i] >= label })

\* countNonZero( result == label )
blob_area(m, label) ==
  Cardinality({ i \in DOMAIN m.data : m.data[i] = label })

\* a default-inserted record; every modelled member is overwritten below
ComponentProperty == [labelID |-> 0, area |-> 0]

\* properties.resize( n )
resize(props, n) ==
  [i \in 1 .. n |-> IF i <= Len(props) THEN props[i] ELSE ComponentProperty]

\* records pushed behind the ones already there
fill_appended(props, labels, m) ==
  props \o [i \in 1 .. Len(labels) |->
              [ComponentProperty EXCEPT !.labelID = labels[i],
                                        !.area = blob_area(m, labels[i])]]

\* lines 91-102: resize, then every record is overwritten
fill_properties(props, labels, m) ==
  LET sized == resize(props, Len(labels))
  IN  [i \in 1 .. Len(labels) |->
         [sized[i] EXCEPT !.labelID = labels[i],
                          !.area = blob_area(m, labels[i])]]

\* lines 84-105: unique labels, the records, and the return
extract(o) ==
  LET labels == IF o.temp # << >> THEN SortUnique(o.temp) ELSE << >>
  IN  [drop_locals(o) EXCEPT
         !.properties = fill_properties(o.properties, labels, o.result),
         !.pc = "idle", !.status = "ok", !.returned = o.result]

\* one step of a running call, wherever it is
step(o) ==
  CASE o.pc = "pass1" -> pass1_pixel(o)
    [] o.pc = "pass2" -> pass2_pixel(o)
    [] o.pc = "extract" -> extract(o)
    [] OTHER -> o

getComponentsCount(o) == Len(o.properties)

getComponentsProperties(o) == o.properties

\* ------------------------------------------------------------ the state
VARIABLES
  maxComponent,   \* member, fixed by the constructor
  nextLabel,      \* member, the counter shared by both passes
  properties,     \* member, the property records
  pc,             \* "idle", "pass1", "pass2", "extract"; "hang", "undefined"
  image,          \* the caller's image of the current or last call
  result,         \* local: the working label image
  linked,         \* local: the disjoint-set parent array
  labels_set,     \* local: the resolved-label map
  temp,           \* local: the final labels in visiting order
  x, y,           \* local: the loop indices
  prev_ptr,       \* local: the previous row, or NULL
  touched,        \* every index used on linked / labels_set in this call
  status,         \* "none", "running", "ok", "error"
  returned,       \* the Mat the last call returned, NoMat if it threw
  twin,           \* a fresh object running the same call
  reused,         \* the current call is not the object's first
  propsAtCall     \* properties as they were when the current call began

vars == << maxComponent, nextLabel, properties, pc, image, result, linked,
           labels_set, temp, x, y, prev_ptr, touched, status, returned,
           twin, reused, propsAtCall >>

Cur ==
  [maxComponent |-> maxComponent, nextLabel |-> nextLabel,
   properties |-> properties, pc |-> pc, image |-> image, result |-> result,
   linked |-> linked, labels_set |-> labels_set, temp |-> temp,
   x |-> x, y |-> y, prev_ptr |-> prev_ptr, touched |-> touched,
   status |-> status, returned |-> returned]

Commit(o) ==
  /\ maxComponent' = o.maxComponent
  /\ nextLabel' = o.nextLabel
  /\ properties' = o.properties
  /\ pc' = o.pc
  /\ image' = o.image
  /\ result' = o.result
  /\ linked' = o.linked
  /\ labels_set' = o.labels_set
  /\ temp' = o.temp
  /\ x' = o.x
  /\ y' = o.y
  /\ prev_ptr' = o.prev_ptr
  /\ touched' = o.touched
  /\ status' = o.status
  /\ returned' = o.returned

\* The constructor sets maxComponent only; nextLabel holds whatever was in
\* memory until apply assigns it.
Init ==
  /\ maxComponent \in 1 .. MaxMaxComponent
  /\ nextLabel \in 0 .. MaxGarbage
  /\ properties = << >>
  /\ pc = "idle"
  /\ image = NoMat
  /\ result = NoMat
  /\ linked = EmptyArr
  /\ labels_set = EmptyArr
  /\ temp = << >>
  /\ x = 0
  /\ y = 0
  /\ prev_ptr = NULL
  /\ touched = {}
  /\ status = "none"
  /\ returned = NoMat
  /\ twin = ConnectedComponent(maxComponent, 0)
  /\ reused = FALSE
  /\ propsAtCall = << >>

\* --------------------------------------------------------------- actions
Ghost == << reused, propsAtCall >>

\* apply( img ) is called on the idle object
apply(img) ==
  /\ pc = "idle"
  /\ Commit(apply_begin(Cur, img))
  /\ twin' = apply_begin(ConnectedComponent(maxComponent, 0), img)
  /\ reused' = (status # "none")
  /\ propsAtCall' = properties

\* the first call on a newly constructed object
ApplyFresh ==
  /\ status = "none"
  /\ \E r \in 1 .. MaxRows, c \in 1 .. MaxCols :
       \E d \in Pixels(r, c) : apply(Mat(r, c, d))

\* a call on an object whatever it was used for before
ApplyAgain ==
  \E r \in 1 .. ReuseRows, c \in 1 .. ReuseCols :
    \E d \in Pixels(r, c) : apply(Mat(r, c, d))

\* pass 1 skips a background pixel
Pass1Background ==
  /\ pc = "pass1"
  /\ at(result, x, y) = 0
  /\ Commit(pass1_pixel(Cur))
  /\ twin' = step(twin)
  /\ UNCHANGED Ghost

\* pass 1 gives a pixel without visited neighbours a fresh label
Pass1FreshLabel ==
  /\ pc = "pass1"
  /\ at(result, x, y) # 0
  /\ getNeighbors(result, prev_ptr, x, y) = << >>
  /\ ~ capacity_exceeded(nextLabel + 1, maxComponent)
  /\ Commit(pass1_pixel(Cur))
  /\ twin' = step(twin)
  /\ UNCHANGED Ghost

\* pass 1 runs out of labels and throws
Pass1CapacityError ==
  /\ pc = "pass1"
  /\ at(result, x, y) # 0
  /\ getNeighbors(result, prev_ptr, x, y) = << >>
  /\ capacity_exceeded(nextLabel + 1, maxComponent)
  /\ Commit(pass1_pixel(Cur))
  /\ twin' = step(twin)
  /\ UNCHANGED Ghost

\* pass 1 joins a pixel to its visited neighbours
Pass1Merge ==
  /\ pc = "pass1"
  /\ at(result, x, y) # 0
  /\ getNeighbors(result, prev_ptr, x, y) # << >>
  /\ Commit(pass1_pixel(Cur))
  /\ twin' = step(twin)
  /\ UNCHANGED Ghost

\* pass 2 skips a background pixel
Pass2Background ==
  /\ pc = "pass2"
  /\ at(result, x, y) = 0
  /\ Commit(pass2_pixel(Cur))
  /\ twin' = step(twin)
  /\ UNCHANGED Ghost

\* pass 2 replaces a provisional label by its final id
Pass2Resolve ==
  /\ pc = "pass2"
  /\ at(result, x, y) # 0
  /\ Commit(pass2_pixel(Cur))
  /\ twin' = step(twin)
  /\ UNCHANGED Ghost

\* the property records are written and apply returns
Extract ==
  /\ pc = "extract"
  /\ Commit(extract(Cur))
  /\ twin' = step(twin)
  /\ UNCHANGED Ghost

\* one call of apply on a fresh object
Next ==
  \/ ApplyFresh
  \/ Pass1Background
  \/ Pass1FreshLabel
  \/ Pass1CapacityError
  \/ Pass1Merge
  \/ Pass2Background
  \/ Pass2Resolve
  \/ Extract

Spec == Init /\ [][Next]_vars

\* any number of calls on the same object
ReuseNext ==
  \/ ApplyAgain
  \/ Pass1Background
  \/ Pass1FreshLabel
  \/ Pass1CapacityError
  \/ Pass1Merge
  \/ Pass2Background
  \/ Pass2Resolve
  \/ Extract

ReuseSpec == Init /\ [][ReuseNext]_vars

TypeOK ==
  /\ pc \in {"idle", "pass1", "pass2", "extract", "hang", "undefined"}
  /\ status \in {"none", "running", "ok", "error"}


\* ------------------------------------------------- flood-fill reference
\* The 8-connected regions of the foreground mask, computed independently
\* of the labelling code by growing a pixel set until it is closed.
FgPixels(m) == { i \in DOMAIN m.data : m.data[i] # 0 }

Adjacent(m, i, j) ==
  LET dx == (i % m.cols) - (j % m.cols)
      dy == (i \div m.cols) - (j \div m.cols)
  IN  /\ i # j
      /\ dx \in {-1, 0, 1}
      /\ dy \in {-1, 0, 1}

RECURSIVE Flood(_, _)
Flood(m, S) ==
  LET grown == S \cup { j \in FgPixels(m) : \E i \in S : Adjacent(m, i, j) }
  IN  IF grown = S THEN S ELSE Flood(m, grown)

\* the regions of the pixels in rest, one flood fill per region
RECURSIVE RegionsOf(_, _)
RegionsOf(m, rest) ==
  IF rest = {} THEN {}
  ELSE LET R == Flood(m, {SetMin(rest)})
       IN  {R} \cup RegionsOf(m, rest \ R)

Regions(m) == RegionsOf(m, FgPixels(m))

\* touching at a corner only: diagonal, both shared side neighbours background
CornerOnly(m, i, j) ==
  /\ (j % m.cols) - (i % m.cols) \in {-1, 1}
  /\ (j \div m.cols) - (i \div m.cols) = 1
  /\ m.data[(i \div m.cols) * m.cols + (j % m.cols)] = 0
  /\ m.data[(j \div m.cols) * m.cols + (i % m.cols)] = 0

Succeeded == pc = "idle" /\ status = "ok"

Failed == pc = "idle" /\ status = "error"

RECURSIVE SumArea(_, _)
SumArea(props, n) ==
  IF n = 0 THEN 0 ELSE props[n].area + SumArea(props, n - 1)

\* ------------------------------------------------------------- claims

\* C1: after a successful apply the returned label image has the input's
\* dimensions, is 0 exactly at the background pixels, and two foreground
\* pixels carry the same label if and only if flood fill puts them in the
\* same 8-connected region.
C1_LabelsAreRegions ==
  Succeeded =>
    /\ returned.rows = image.rows
    /\ returned.cols = image.cols
    /\ DOMAIN returned.data = DOMAIN image.data
    /\ \A i \in DOMAIN image.data :
         (returned.data[i] = 0) <=> (image.data[i] = 0)
    /\ LET regions == Regions(image)
       IN  \A R, Q \in regions : \A i \in R, j \in Q :
             (returned.data[i] = returned.data[j]) <=> (R = Q)

\* two blocks touching only at a corner got one label, next to another region
C1_Witness ==
  /\ Succeeded
  /\ Cardinality(Regions(image)) = 2
  /\ \E i, j \in FgPixels(image) :
       CornerOnly(image, i, j) /\ returned.data[i] = returned.data[j]

\* C2: after a successful apply the nonzero values of the label image are
\* exactly 1 .. N, N the number of 8-connected regions of the input, and
\* getComponentsCount() is N (N = 0 for an all-background image).
C2_DenseLabels ==
  Succeeded =>
    LET N == Cardinality(Regions(image))
    IN  /\ { returned.data[i] : i \in DOMAIN returned.data } \ {0} = 1 .. N
        /\ getComponentsCount(Cur) = N
        /\ (FgPixels(image) = {}) =>
             /\ getComponentsProperties(Cur) = << >>
             /\ \A i \in DOMAIN returned.data : returned.data[i] = 0

\* two regions of two or more pixels each, around background pixels
C2_Witness ==
  /\ Succeeded
  /\ Cardinality(Regions(image)) = 2
  /\ \A R \in Regions(image) : Cardinality(R) >= 2
  /\ getComponentsCount(Cur) = 2

\* C3: apply fails with the capacity error only when the number of fresh
\* provisional labels handed out in pass 1 has reached maxComponent.
C3_FailsOnlyAtMaxComponent ==
  Failed => (nextLabel - 1 >= maxComponent)

\* C4: after a successful apply record i (counted from 0) has labelID i+1,
\* its area is the number of pixels carrying that label and is at least 1,
\* there is one record per label, and the areas sum to the number of
\* foreground pixels of the input.
C4_Records ==
  Succeeded =>
    /\ Len(properties) =
         Cardinality({ returned.data[i] : i \in DOMAIN returned.data } \ {0})
    /\ \A k \in 1 .. Len(properties) :
         /\ properties[k].labelID = k
         /\ properties[k].area =
              Cardinality({ i \in DOMAIN returned.data : returned.data[i] = k })
         /\ properties[k].area >= 1
    /\ SumArea(properties, Len(properties)) = Cardinality(FgPixels(image))

\* two records of different area
C4_Witness ==
  /\ Succeeded
  /\ Len(properties) = 2
  /\ properties[1].area > properties[2].area
  /\ properties[2].area > 1

\* C5: when apply aborts with the capacity error no label image is
\* returned, the property records are what they were before the call, and
\* the caller's image still holds its own pixels.
C5_NoPartialResult ==
  Failed =>
    /\ returned = NoMat
    /\ getComponentsProperties(Cur) = propsAtCall
    /\ getComponentsCount(Cur) = Len(propsAtCall)
    /\ image.data \in Pixels(image.rows, image.cols)

\* a failing call on an object that holds records of an earlier call
C5_Witness ==
  /\ Failed
  /\ reused
  /\ propsAtCall # << >>

\* C6: whatever the object was used for before, a call ends as the same call
\* on a fresh object does: same outcome, same label image, same records;
\* the records are overwritten, one per label of the new image.
C6_HistoryIndependent ==
  (pc = "idle" /\ status # "none") =>
    /\ twin.pc = "idle"
    /\ status = twin.status
    /\ returned = twin.returned
    /\ Succeeded =>
         /\ properties = twin.properties
         /\ Len(properties) =
              Cardinality({ returned.data[i] : i \in DOMAIN returned.data } \ {0})

\* a successful call that left fewer records than the object held before
C6_Witness ==
  /\ Succeeded
  /\ reused
  /\ Len(properties) >= 1
  /\ Len(propsAtCall) > Len(properties)

\* the root each label is chased to
Roots == [i \in DOMAIN linked |-> find_root(linked, i).root]

\* C7 as stated: every nonzero parent[i] is a label smaller than i, and the
\* root of a class is its smallest label.
C7_ParentIsSmaller ==
  LET root == Roots
  IN  \A i \in DOMAIN linked :
        /\ (linked[i] > 0) => (linked[i] < i)
        /\ root[i] = SetMin({ j \in DOMAIN linked : root[j] = root[i] })

\* C7 amended: disjointUnion redirects the smaller root to the larger one,
\* so every nonzero parent[i] is a label greater than i, and the root of a
\* class is the largest label ever unioned into it.
C7_ParentIsLarger ==
  LET root == Roots
  IN  \A i \in DOMAIN linked :
        /\ (linked[i] > 0) => (linked[i] > i /\ linked[i] \in DOMAIN linked)
        /\ root[i] = SetMax({ j \in DOMAIN linked : root[j] = root[i] })

\* a union of two different roots has happened
C7_Witness ==
  \E i \in DOMAIN linked : linked[i] > 0 /\ pc = "pass1"

\* the position of a running call: the pass, then the row, then the column
Stage(p) ==
  CASE p = "pass1" -> 1
    [] p = "pass2" -> 2
    [] p = "extract" -> 3
    [] OTHER -> 0

Advanced ==
  \/ Stage(pc') > Stage(pc)
  \/ /\ Stage(pc') = Stage(pc)
     /\ \/ y' > y
        \/ y' = y /\ x' > x

\* C8: no step leaves a cycle in the parent array: from every label the
\* parent pointers reach a root, so no root chase runs forever; and every
\* step of a running call either ends the call (return or throw) or moves
\* it to a later pixel or pass, so the call ends.
C8_NoCycle ==
  [][ /\ \A i \in DOMAIN linked' : find_root(linked', i).end = "root"
      /\ pc' # "hang"
      /\ (pc \in {"pass1", "pass2", "extract"}) => (pc' = "idle" \/ Advanced)
    ]_vars

\* pass 2 follows a parent pointer that a union of pass 1 has set
C8_Witness ==
  /\ pc = "pass2"
  /\ at(result, x, y) # 0
  /\ linked[at(result, x, y)] > 0

\* C9: in pass 2 the compact ids in the resolved-label map are distinct,
\* sit at roots only and are exactly those handed out so far; in the
\* returned image a region has a smaller id than another exactly when its
\* first pixel in raster order comes first, and ids start at 1.
C9_RasterOrder ==
  /\ (pc \in {"pass2", "extract"}) =>
       /\ \A a, b \in DOMAIN labels_set :
            (labels_set[a] # 0 /\ labels_set[a] = labels_set[b]) => (a = b)
       /\ \A a \in DOMAIN labels_set :
            (labels_set[a] # 0) => (linked[a] = 0)
       /\ { labels_set[a] : a \in DOMAIN labels_set } \ {0}
            = 1 .. (nextLabel - 1)
  /\ Succeeded =>
       /\ LET regions == Regions(image)
          IN  \A R, Q \in regions : \A i \in R, j \in Q :
                (returned.data[i] < returned.data[j])
                  <=> (SetMin(R) < SetMin(Q))
       /\ (FgPixels(image) # {}) =>
            returned.data[SetMin(FgPixels(image))] = 1

\* two regions interleaved in raster order: a pixel of the region with id 1
\* is visited after a pixel of the region with id 2
C9_Witness ==
  /\ Succeeded
  /\ \E i, j \in FgPixels(image) :
       /\ returned.data[i] = 1
       /\ returned.data[j] = 2
       /\ i > j

\* C10: every index used on the parent array and the resolved-label map
\* lies in 0 .. maxComponent-1, and every provisional label that pass 1 has
\* written to a visited pixel is below maxComponent.
C10_InBounds ==
  /\ touched \subseteq 0 .. (maxComponent - 1)
  /\ pc # "undefined"
  /\ twin.pc # "undefined"
  /\ (pc = "pass1") =>
       \A i \in DOMAIN result.data :
         (i < y * result.cols + x) => (result.data[i] < maxComponent)

\* a run that used the arrays and then ended in the capacity error
C10_Witness ==
  /\ Failed
  /\ touched # {}

====
